---- MODULE Spec2Model ----
(***************************************************************************)
(* Model of examples/gotypes/main.go: the differential oracle Fuzz(data), *)
(* which runs go/types (gotypes) and gccgo on one input, copies the        *)
(* go/types verdict into the gc arm, and classifies the three verdicts.    *)
(*                                                                         *)
(* Text.  A text (the input bytes, or an error's message) is modelled by   *)
(* the set of fragments that occur in it.  A fragment is a concrete piece  *)
(* of text; Literals(f) lists the string literals of main.go that occur    *)
(* inside f besides f itself, and a regular expression of main.go is the   *)
(* set of fragments it matches.  strings.Contains / bytes.Contains and     *)
(* Regexp.Match are evaluated over these fragments.                        *)
(***************************************************************************)
EXTENDS Naturals, Sequences, FiniteSets

VARIABLES data, pc, goErr, gcErr, gccgoErr, calls, verdict, fmtArg, fmtErr,
          outcome, ret, panicMsg

vars == <<data, pc, goErr, gcErr, gccgoErr, calls, verdict, fmtArg, fmtErr,
          outcome, ret, panicMsg>>

(***************************************************************************)
(* Bounds: how many fragments one input / one error message is made of.    *)
(***************************************************************************)
MaxSnippets == 1
MaxGoParts == 1
MaxGccgoParts == 1

(***************************************************************************)
(* Fragments that carry more than one pattern of main.go.                  *)
(***************************************************************************)
FpRoundingMsg == " (untyped float constant 1e-1) truncated to "
GcIce == "\n/tmp/fuzz.gc1:1: internal compiler error: "
GcIceKnown == "\n/tmp/fuzz.gc1:1: internal compiler error: out of fixed registers"
GccgoIce == "\ngo1: internal compiler error:"
GccgoIceKnown == "\ngo1: internal compiler error: in set_type, at go/gofrontend/expressions.cc"
AsanReport == "\n==1==ERROR: AddressSanitizer: "
AsanReportKnown == "\n==1==ERROR: AddressSanitizer: SEGV in Lex::skip_cpp_comment() ../../gcc/go/gofrontend/lex.cc"
BlockComment == "/*\n*/"

Literals(f) ==
  CASE f = FpRoundingMsg -> {"untyped float constant"}
    [] f = GcIceKnown -> {"internal compiler error: out of fixed registers"}
    [] f = GccgoIceKnown ->
         {"go1: internal compiler error: in set_type, at go/gofrontend/expressions.cc"}
    [] f = "error: incompatible types in binary expression" ->
         {"incompatible types in binary expression"}
    [] f = AsanReportKnown ->
         {" in Lex::skip_cpp_comment() ../../gcc/go/gofrontend/lex.cc"}
    [] f = BlockComment -> {"/*"}
    [] f = ";/*" -> {"/*"}
    [] OTHER -> {}

\* strings.Contains(text, lit) and bytes.Contains(text, lit)
Contains(text, lit) == \E f \in text : lit = f \/ lit \in Literals(f)

\* re.Match(text) and re.MatchString(text)
Match(re, text) == \E f \in text : f \in re

ContainsAny(text, lits) == \E l \in lits : Contains(text, l)

(***************************************************************************)
(* The regular expressions of main.go, as the fragments they match.        *)
(***************************************************************************)
bigNum == {".5", "1e100"}
formatBug1 == {"*/;"}
formatBug2 == {";/*"}
issue11528 == {BlockComment}
issue11533 == {" 09e"}
issue11531 == {",,"}
fpRounding == {FpRoundingMsg}
gcCrash == {GcIce, GcIceKnown}
gccgoCrash == {GccgoIce, GccgoIceKnown}
asanCrash == {AsanReport, AsanReportKnown}

(***************************************************************************)
(* Errors: nil, or an error carrying a message.                            *)
(***************************************************************************)
NilErr == [nil |-> TRUE, msg |-> {}]
Errorf(m) == [nil |-> FALSE, msg |-> m]

(***************************************************************************)
(* The inputs: what the fuzzer can hand to Fuzz and what the two adapters  *)
(* can answer.  The empty set of fragments is a text in which no pattern   *)
(* of main.go occurs.                                                      *)
(***************************************************************************)
UpTo(S, k) == {x \in SUBSET S : Cardinality(x) <= k}

DataSnippets ==
  {".5", "1e100", ",,", "//line", "_", " 09e", "0i", BlockComment, "*/;", ";/*", "\r"}

GoFragments ==
  {"line number out of range", "stupid shift:", "untyped float constant",
   "overflow in int -> string", "illegal character U+",
   "larger than address space", "non-canonical import path",
   "invalid operation: stupid shift count", "illegal UTF-8 encoding",
   "illegal character NUL", "invalid operation: operator ^ not defined for",
   FpRoundingMsg, ": undeclared name: ", "invalid array length",
   "not enough arguments for complex", "operator | not defined for",
   "nil (untyped nil value) is not a type", "(built-in) must be called",
   "redeclared in this block", "illegal byte order mark",
   "unknown escape sequence", GcIce, GcIceKnown,
   "internal compiler error: treecopy Name"}

GccgoFragments ==
  {"error: string index out of bounds",
   "error: integer constant overflow", "incompatible types in binary expression",
   "initialization expression has wrong type",
   "invalid character 0x37f in input file",
   "error: incompatible types in binary expression", ": error: import file ",
   GccgoIce, GccgoIceKnown, "Send_statement::do_flatten",
   "error: constant refers to itself", AsanReport, AsanReportKnown,
   " in Lex::skip_cpp_comment() ../../gcc/go/gofrontend/lex.cc"}

Inputs == UpTo(DataSnippets, MaxSnippets)
GoResults == {NilErr} \cup {Errorf(m) : m \in UpTo(GoFragments, MaxGoParts)}
GccgoResults == {NilErr} \cup {Errorf(m) : m \in UpTo(GccgoFragments, MaxGccgoParts)}
FormatResults == {NilErr, Errorf({"format error"})}

(***************************************************************************)
(* Fuzz, lines 39-46: inputs skipped before any implementation runs.       *)
(***************************************************************************)
PreFilterBigNumOnly(d) == Match(bigNum, d)

PreFilter(d) == Match(bigNum, d) \/ Match(issue11531, d)

(***************************************************************************)
(* Fuzz, lines 51-174: the known divergences, in source order.  The value  *)
(* is the name of the first rule that returns 0, or "none".                *)
(***************************************************************************)
KnownDivergence(d, go, gc, gccgo) ==
  LET goOnly == gccgo.nil /\ ~go.nil
      gccgoOnly == go.nil /\ ~gccgo.nil
  IN
  IF go.nil /\ ~gc.nil /\ Contains(gc.msg, "line number out of range")
    THEN "issue11329"
  ELSE IF go.nil /\ ~gc.nil /\ Contains(gc.msg, "stupid shift:")
    THEN "issue11328"
  ELSE IF gc.nil /\ ~go.nil /\ Contains(go.msg, "untyped float constant")
    THEN "issue11350"
  ELSE IF go.nil /\ ~gc.nil /\ Contains(gc.msg, "overflow in int -> string")
    THEN "issue11330"
  ELSE IF gc.nil /\ ~go.nil /\ Contains(go.msg, "illegal character U+")
    THEN "issue11359"
  ELSE IF go.nil /\ ~gc.nil /\ Contains(gc.msg, "larger than address space")
    THEN "gc address space"
  ELSE IF go.nil /\ ~gc.nil /\ Contains(gc.msg, "non-canonical import path")
    THEN "gc import path"
  ELSE IF goOnly /\ Contains(go.msg, "invalid operation: stupid shift count")
    THEN "issue11524"
  ELSE IF goOnly /\ (Contains(d, "//line") \/ Contains(d, "/*"))
             /\ (Contains(go.msg, "illegal UTF-8 encoding")
                   \/ Contains(go.msg, "illegal character NUL"))
    THEN "issue11527"
  ELSE IF goOnly /\ Contains(go.msg, "invalid operation: operator ^ not defined for")
    THEN "issue11529"
  ELSE IF goOnly /\ Match(fpRounding, go.msg)
    THEN "gccgo rounding"
  ELSE IF goOnly /\ Contains(d, "_")
             /\ (Contains(go.msg, ": undeclared name: ")
                   \/ Contains(go.msg, "invalid array length"))
    THEN "issue11547"
  ELSE IF goOnly /\ Contains(go.msg, "not enough arguments for complex")
    THEN "issue11561"
  ELSE IF goOnly /\ Contains(go.msg, "operator | not defined for")
    THEN "issue11566"
  ELSE IF goOnly /\ Contains(go.msg, "nil (untyped nil value) is not a type")
    THEN "issue11567"
  ELSE IF goOnly /\ Contains(go.msg, "(built-in) must be called")
    THEN "issue11570"
  ELSE IF goOnly /\ Contains(go.msg, "redeclared in this block")
    THEN "issue11573"
  ELSE IF goOnly /\ Contains(go.msg, "illegal byte order mark")
    THEN "byte order mark"
  ELSE IF goOnly /\ Contains(go.msg, "unknown escape sequence")
    THEN "issue11575"
  ELSE IF gccgoOnly /\ Contains(gccgo.msg, "error: string index out of bounds")
    THEN "issue11522"
  ELSE IF gccgoOnly /\ Contains(gccgo.msg, "error: integer constant overflow")
    THEN "issue11525"
  ELSE IF gccgoOnly /\ Match(issue11533, d)
    THEN "issue11533"
  ELSE IF gccgoOnly /\ Contains(d, "0i")
             /\ (Contains(gccgo.msg, "incompatible types in binary expression")
                   \/ Contains(gccgo.msg, "initialization expression has wrong type"))
    THEN "issue11564"
  ELSE IF gccgoOnly /\ Contains(gccgo.msg, "invalid character 0x37f in input file")
    THEN "issue11569"
  ELSE IF gccgoOnly /\ Contains(gccgo.msg, "error: incompatible types in binary expression")
    THEN "issue11572"
  ELSE IF go.nil /\ ~gccgo.nil /\ Contains(gccgo.msg, ": error: import file ")
    THEN "gccgo import file"
  ELSE IF ((go.nil /\ ~gccgo.nil) \/ (~go.nil /\ gccgo.nil)) /\ Match(issue11528, d)
    THEN "issue11528"
  ELSE "none"

\* The rules of KnownDivergence that compare go/types with gc (lines 51-77).
GcRules ==
  {"issue11329", "issue11328", "issue11350", "issue11330", "issue11359",
   "gc address space", "gc import path"}

(***************************************************************************)
(* Fuzz, lines 177-280: the crash patterns and their known signatures.     *)
(***************************************************************************)
gcCrashSigs ==
  {"internal compiler error: out of fixed registers",
   "internal compiler error: naddr: bad HMUL",
   "internal compiler error: treecopy Name"}

\* The first signature is written with ' for the typographic quotes of the source.
gccgoCrashSigs ==
  {"warning: no arguments for builtin function 'print'",
   "error: constant refers to itself",
   "go1: internal compiler error: in set_type, at go/gofrontend/expressions.cc",
   "go1: internal compiler error: in global_variable_set_init, at go/go-gcc.cc",
   "go1: internal compiler error: in wide_int_to_tree, at tree.c",
   "go1: internal compiler error: in record_var_depends_on, at go/gofrontend/gogo.h",
   "go1: internal compiler error: in Builtin_call_expression, at go/gofrontend/expressions.cc",
   "go1: internal compiler error: in check_bounds, at go/gofrontend/expressions.cc",
   "go1: internal compiler error: in do_determine_type, at go/gofrontend/expressions.h",
   "go1: internal compiler error: in backend_numeric_constant_expression, at go/gofrontend/expressions.cc",
   "go1: internal compiler error: in declare_function, at go/gofrontend/gogo.cc",
   "gcc/go/gofrontend/expressions.cc:5756",
   "Send_statement::do_flatten",
   "internal compiler error: in do_get_backend, at go/gofrontend/expressions.cc",
   "go1: internal compiler error: in type_size, at go/go-gcc.cc",
   "go1: internal compiler error: in create_tmp_var, at gimple-expr.c",
   "go1: internal compiler error: in start_function, at go/gofrontend/gogo.cc",
   "go1: internal compiler error: in methods, at go/gofrontend/types.cc"}

asanCrashSigs == {" in Lex::skip_cpp_comment() ../../gcc/go/gofrontend/lex.cc"}

GcCrashed(gc) == ~gc.nil /\ Match(gcCrash, gc.msg)
GccgoCrashedOnAnyError(gccgo) == ~gccgo.nil

GccgoCrashed(gccgo) == ~gccgo.nil /\ Match(gccgoCrash, gccgo.msg)
AsanCrashed(gccgo) == ~gccgo.nil /\ Match(asanCrash, gccgo.msg)

DisagreeGcOnly(go, gc, gccgo) == go.nil # gc.nil

DisagreeBoth(go, gc, gccgo) == (go.nil # gc.nil) /\ (go.nil # gccgo.nil)

\* Fuzz, line 282
Disagree(go, gc, gccgo) == (go.nil # gc.nil) \/ (go.nil # gccgo.nil)

(***************************************************************************)
(* Fuzz, lines 51-291: what the classification does with three verdicts.   *)
(* "continue" is the fall through to line 292.                             *)
(***************************************************************************)
Return(n, why) == [out |-> "return", ret |-> n, msg |-> "", rule |-> why]
Panic(m) == [out |-> "panic", ret |-> 0, msg |-> m, rule |-> "none"]
Continue == [out |-> "continue", ret |-> 0, msg |-> "", rule |-> "none"]

\* lines 178-191
GcCrashVerdict(gc) ==
  IF ContainsAny(gc.msg, gcCrashSigs)
    THEN Return(0, "known gc crash")
    ELSE Panic("gc compiler crashed")

GccgoCrashAlwaysPanics(gccgo) == Panic("gccgo compiler crashed")

\* lines 195-270
GccgoCrashVerdict(gccgo) ==
  IF ContainsAny(gccgo.msg, gccgoCrashSigs)
    THEN Return(0, "known gccgo crash")
    ELSE Panic("gccgo compiler crashed")

\* lines 274-279
AsanCrashVerdict(gccgo) ==
  IF ContainsAny(gccgo.msg, asanCrashSigs)
    THEN Return(0, "known asan crash")
    ELSE Panic("gccgo compiler crashed")

\* lines 177-291
AfterKnown(go, gc, gccgo) ==
  IF GcCrashed(gc) THEN GcCrashVerdict(gc)
  ELSE IF GccgoCrashed(gccgo) THEN GccgoCrashVerdict(gccgo)
  ELSE IF AsanCrashed(gccgo) THEN AsanCrashVerdict(gccgo)
  ELSE IF Disagree(go, gc, gccgo)
    THEN Panic("gc, gccgo and go/types disagree")
  ELSE IF ~go.nil THEN Return(0, "all invalid")
  ELSE Continue

EvaluateDisagreeFirst(d, go, gc, gccgo) ==
  LET known == KnownDivergence(d, go, gc, gccgo) IN
  IF Disagree(go, gc, gccgo) THEN Panic("gc, gccgo and go/types disagree")
  ELSE IF known # "none" THEN Return(0, known)
  ELSE AfterKnown(go, gc, gccgo)

Evaluate(d, go, gc, gccgo) ==
  LET known == KnownDivergence(d, go, gc, gccgo) IN
  IF known # "none" THEN Return(0, known)
  ELSE AfterKnown(go, gc, gccgo)

\* Fuzz, line 292
FormatBug(d) == Match(formatBug1, d) \/ Match(formatBug2, d)

\* Fuzz, line 296: bytes.Replace(data, "\r", " ", -1)
Replace(d) == {IF f = "\r" THEN " " ELSE f : f \in d}

(***************************************************************************)
(* The state machine: one evaluation of Fuzz on one input.                 *)
(***************************************************************************)
Init ==
  /\ data \in Inputs
  /\ pc = "prefilter"
  /\ goErr = NilErr
  /\ gcErr = NilErr
  /\ gccgoErr = NilErr
  /\ calls = <<>>
  /\ verdict = Continue
  /\ fmtArg = {}
  /\ fmtErr = NilErr
  /\ outcome = "running"
  /\ ret = 0
  /\ panicMsg = ""

\* lines 39-46
PreFilterStep ==
  /\ pc = "prefilter"
  /\ IF PreFilter(data)
       THEN /\ pc' = "done"
            /\ outcome' = "return"
            /\ ret' = 0
       ELSE /\ pc' = "gotypes"
            /\ UNCHANGED <<outcome, ret>>
  /\ UNCHANGED <<data, goErr, gcErr, gccgoErr, calls, verdict, fmtArg, fmtErr, panicMsg>>

GotypesThenClassify ==
  /\ pc = "gotypes"
  /\ \E r \in GoResults : goErr' = r
  /\ calls' = Append(calls, "gotypes")
  /\ pc' = "classify"
  /\ UNCHANGED <<data, gcErr, gccgoErr, verdict, fmtArg, fmtErr, outcome, ret, panicMsg>>

\* line 47 and gotypes, lines 312-338, returning an error or nil
Gotypes ==
  /\ pc = "gotypes"
  /\ \E r \in GoResults : goErr' = r
  /\ calls' = Append(calls, "gotypes")
  /\ pc' = "gc"
  /\ UNCHANGED <<data, gcErr, gccgoErr, verdict, fmtArg, fmtErr, outcome, ret, panicMsg>>

\* line 47 and gotypes, lines 331-335: the panic on a failed WriteTo
GotypesPanic ==
  /\ pc = "gotypes"
  /\ calls' = Append(calls, "gotypes")
  /\ pc' = "done"
  /\ outcome' = "panic"
  /\ panicMsg' = "gotypes: WriteTo failed"
  /\ UNCHANGED <<data, goErr, gcErr, gccgoErr, verdict, fmtArg, fmtErr, ret>>

GcCall ==
  /\ pc = "gc"
  /\ \E r \in GoResults : gcErr' = r
  /\ calls' = Append(calls, "gc")
  /\ pc' = "gccgo"
  /\ UNCHANGED <<data, goErr, gccgoErr, verdict, fmtArg, fmtErr, outcome, ret, panicMsg>>

\* lines 48-49: gc(data) is commented out, gcErr := goErr
Gc ==
  /\ pc = "gc"
  /\ gcErr' = goErr
  /\ pc' = "gccgo"
  /\ UNCHANGED <<data, goErr, gccgoErr, calls, verdict, fmtArg, fmtErr, outcome, ret, panicMsg>>

\* line 50 and gccgo, lines 359-368
Gccgo ==
  /\ pc = "gccgo"
  /\ \E r \in GccgoResults : gccgoErr' = r
  /\ calls' = Append(calls, "gccgo")
  /\ pc' = "classify"
  /\ UNCHANGED <<data, goErr, gcErr, verdict, fmtArg, fmtErr, outcome, ret, panicMsg>>

\* lines 51-291
Classify ==
  /\ pc = "classify"
  /\ verdict' = Evaluate(data, goErr, gcErr, gccgoErr)
  /\ IF verdict'.out = "continue"
       THEN /\ pc' = "format"
            /\ UNCHANGED <<outcome, ret, panicMsg>>
       ELSE /\ pc' = "done"
            /\ outcome' = verdict'.out
            /\ ret' = verdict'.ret
            /\ panicMsg' = verdict'.msg
  /\ UNCHANGED <<data, goErr, gcErr, gccgoErr, calls, fmtArg, fmtErr>>

RoundTripIgnoresError ==
  /\ pc = "format"
  /\ IF FormatBug(data)
       THEN UNCHANGED <<calls, fmtArg, fmtErr>>
       ELSE /\ fmtArg' = Replace(data)
            /\ calls' = Append(calls, "format.Source")
            /\ \E e \in FormatResults : fmtErr' = e
  /\ outcome' = "return"
  /\ ret' = 1
  /\ pc' = "done"
  /\ UNCHANGED <<data, goErr, gcErr, gccgoErr, verdict, panicMsg>>

\* lines 292-309
RoundTrip ==
  /\ pc = "format"
  /\ IF FormatBug(data)
       THEN /\ outcome' = "return"
            /\ ret' = 1
            /\ UNCHANGED <<calls, fmtArg, fmtErr, panicMsg>>
       ELSE /\ fmtArg' = Replace(data)
            /\ calls' = Append(calls, "format.Source")
            /\ \E e \in FormatResults : fmtErr' = e
            /\ IF fmtErr'.nil
                 THEN /\ outcome' = "return"
                      /\ ret' = 1
                      /\ UNCHANGED panicMsg
                 ELSE /\ outcome' = "panic"
                      /\ panicMsg' = "format.Source failed"
                      /\ UNCHANGED ret
  /\ pc' = "done"
  /\ UNCHANGED <<data, goErr, gcErr, gccgoErr, verdict>>

Next ==
  \/ PreFilterStep
  \/ Gotypes
  \/ GotypesPanic
  \/ Gc
  \/ Gccgo
  \/ Classify
  \/ RoundTrip

Spec == Init /\ [][Next]_vars

(***************************************************************************)
(* Vocabulary of the claims.                                               *)
(***************************************************************************)
\* Fuzz has finished and both adapters had answered: the verdicts exist.
Judged == pc = "done" /\ Len(calls) >= 2
Skipped == outcome = "return" /\ ret = 0
Passed == outcome = "return" /\ ret = 1
Fatal == outcome = "panic"
DisagreeMsg == "gc, gccgo and go/types disagree"

AllValid == goErr.nil /\ gcErr.nil /\ gccgoErr.nil
ValidityDiffers == ~(goErr.nil = gcErr.nil /\ gcErr.nil = gccgoErr.nil)

\* The verdict of an external compiler is Crashed: a crash pattern matches its output.
GcVerdictCrashed == ~gcErr.nil /\ Match(gcCrash, gcErr.msg)
GccgoVerdictCrashed ==
  ~gccgoErr.nil /\ (Match(gccgoCrash, gccgoErr.msg) \/ Match(asanCrash, gccgoErr.msg))
\* ... and its output has a curated signature of that implementation.
GcSigFound == ContainsAny(gcErr.msg, gcCrashSigs)
GccgoSigFound == ContainsAny(gccgoErr.msg, gccgoCrashSigs \cup asanCrashSigs)

FormatterRan == \E i \in 1..Len(calls) : calls[i] = "format.Source"

(***************************************************************************)
(* C1.  Crash-first escalation: when the input passed the pre-filter and   *)
(* an external compiler's verdict is Crashed with none of the curated      *)
(* signatures of that implementation in its output, Fuzz ends in a panic,  *)
(* whatever the other verdicts and whether or not a known divergence also  *)
(* matches.                                                                *)
(***************************************************************************)
CrashFirstEscalation ==
  (/\ Judged
   /\ \/ GcVerdictCrashed /\ ~GcSigFound
      \/ GccgoVerdictCrashed /\ ~GccgoSigFound)
  => Fatal

(***************************************************************************)
(* C2.  Disagreement safety net: when the three verdicts do not agree on   *)
(* validity and no pre-filter pattern, no known divergence and no crash    *)
(* signature rule matches, Fuzz ends in a panic, never returning 0 or 1;   *)
(* when no crash pattern matches either, the panic is the disagreement one.*)
(***************************************************************************)
DisagreementSafetyNet ==
  (/\ Judged
   /\ ValidityDiffers
   /\ ~(Match(bigNum, data) \/ Match(issue11531, data))
   /\ KnownDivergence(data, goErr, gcErr, gccgoErr) = "none"
   /\ ~(GcVerdictCrashed /\ GcSigFound)
   /\ ~(GccgoVerdictCrashed /\ GccgoSigFound))
  => /\ Fatal
     /\ (~GcVerdictCrashed /\ ~GccgoVerdictCrashed) => panicMsg = DisagreeMsg

DisagreementSafetyNetWitness ==
  /\ Judged
  /\ goErr.nil
  /\ ~gccgoErr.nil
  /\ KnownDivergence(data, goErr, gcErr, gccgoErr) = "none"
  /\ ~GccgoVerdictCrashed
  /\ panicMsg = DisagreeMsg

(***************************************************************************)
(* C3.  When all three verdicts are Invalid (an error whose text matches   *)
(* no crash pattern), Fuzz returns 0 and does not panic.                   *)
(***************************************************************************)
AllInvalidSkips ==
  (/\ Judged
   /\ ~goErr.nil /\ ~gcErr.nil /\ ~gccgoErr.nil
   /\ ~Match(gcCrash, goErr.msg)
   /\ ~Match(gcCrash, gcErr.msg)
   /\ ~Match(gccgoCrash, gccgoErr.msg)
   /\ ~Match(asanCrash, gccgoErr.msg))
  => Skipped

AllInvalidSkipsWitness ==
  /\ Judged
  /\ ~goErr.nil /\ ~gcErr.nil /\ ~gccgoErr.nil
  /\ goErr.msg # {}
  /\ gccgoErr.msg # {}
  /\ ~Match(gcCrash, goErr.msg)
  /\ ~Match(gccgoCrash, gccgoErr.msg)
  /\ ~Match(asanCrash, gccgoErr.msg)
  /\ Skipped
  /\ verdict.rule = "all invalid"

(***************************************************************************)
(* C4.  Suppression precedes the generic disagreement check: when the      *)
(* verdicts disagree on validity, a known divergence matches the input and *)
(* the verdicts, and no external verdict is Crashed, Fuzz returns 0 and    *)
(* does not panic.                                                         *)
(***************************************************************************)
SuppressionBeforeDisagreement ==
  (/\ Judged
   /\ ValidityDiffers
   /\ KnownDivergence(data, goErr, gcErr, gccgoErr) # "none"
   /\ ~GcVerdictCrashed
   /\ ~GccgoVerdictCrashed)
  => Skipped

SuppressionBeforeDisagreementWitness ==
  /\ Judged
  /\ goErr.nil
  /\ ~gccgoErr.nil
  /\ Contains(gccgoErr.msg, "error: integer constant overflow")
  /\ ~GccgoVerdictCrashed
  /\ Skipped
  /\ verdict.rule = "issue11525"

(***************************************************************************)
(* C5, as claimed.  When an external compiler's verdict is Crashed and its *)
(* output contains a curated signature of that implementation, Fuzz        *)
(* returns 0, whatever the reference verdict.                              *)
(***************************************************************************)
CuratedCrashSkips ==
  (/\ Judged
   /\ \/ GcVerdictCrashed /\ GcSigFound
      \/ GccgoVerdictCrashed /\ GccgoSigFound)
  => Skipped

(***************************************************************************)
(* C5, amended.  When a crash pattern matches an external compiler's       *)
(* output, the output contains a signature of the list checked under that  *)
(* pattern, and no crash pattern checked before it matches without a       *)
(* signature of its own list, Fuzz returns 0.  The patterns are checked in *)
(* the order gcCrash, gccgoCrash, asanCrash.                               *)
(***************************************************************************)
UnknownGcIce == GcVerdictCrashed /\ ~ContainsAny(gcErr.msg, gcCrashSigs)
UnknownGccgoIce ==
  /\ ~gccgoErr.nil
  /\ Match(gccgoCrash, gccgoErr.msg)
  /\ ~ContainsAny(gccgoErr.msg, gccgoCrashSigs)

CuratedCrashSkipsInOrder ==
  (/\ Judged
   /\ \/ GcVerdictCrashed /\ ContainsAny(gcErr.msg, gcCrashSigs)
      \/ /\ ~UnknownGcIce
         /\ ~gccgoErr.nil
         /\ Match(gccgoCrash, gccgoErr.msg)
         /\ ContainsAny(gccgoErr.msg, gccgoCrashSigs)
      \/ /\ ~UnknownGcIce
         /\ ~UnknownGccgoIce
         /\ ~gccgoErr.nil
         /\ Match(asanCrash, gccgoErr.msg)
         /\ ContainsAny(gccgoErr.msg, asanCrashSigs))
  => Skipped

CuratedCrashSkipsWitness ==
  /\ Judged
  /\ goErr.nil
  /\ Match(gccgoCrash, gccgoErr.msg)
  /\ ContainsAny(gccgoErr.msg, gccgoCrashSigs)
  /\ Skipped
  /\ verdict.rule = "known gccgo crash"

(***************************************************************************)
(* C6, as claimed.  On an input all three implementations judge Valid the  *)
(* formatter is run before Fuzz ends, the result is 1 exactly when the     *)
(* formatter succeeds and a panic when it fails.                           *)
(***************************************************************************)
ReformatAlwaysRuns ==
  (Judged /\ AllValid)
  => /\ FormatterRan
     /\ Passed <=> fmtErr.nil
     /\ ~fmtErr.nil => Fatal

(***************************************************************************)
(* C6, amended.  On an input all three implementations judge Valid: if the *)
(* input matches formatBug1 or formatBug2, Fuzz returns 1 without running  *)
(* the formatter; otherwise the formatter is run, on the input with every  *)
(* carriage return replaced by a space, and Fuzz returns 1 exactly when it *)
(* succeeds and panics when it fails.                                      *)
(***************************************************************************)
ReformatUnlessFormatBug ==
  (Judged /\ AllValid)
  => IF Match(formatBug1, data) \/ Match(formatBug2, data)
       THEN Passed /\ ~FormatterRan
       ELSE /\ calls = <<"gotypes", "gccgo", "format.Source">>
            /\ fmtArg = {IF f = "\r" THEN " " ELSE f : f \in data}
            /\ Passed <=> fmtErr.nil
            /\ Fatal <=> ~fmtErr.nil

ReformatWitness ==
  /\ Judged
  /\ AllValid
  /\ FormatterRan
  /\ "\r" \in data
  /\ ~fmtErr.nil
  /\ Fatal

(***************************************************************************)
(* C7, as claimed.  The reference adapter (gotypes) does not begin before  *)
(* the external compiler adapters have produced their verdicts.            *)
(***************************************************************************)
ExternalsBeforeReference ==
  (\E i \in 1..Len(calls) : calls[i] = "gotypes")
  => \E j \in 1..Len(calls) : calls[j] = "gccgo"

(***************************************************************************)
(* C7, amended.  No classification rule is evaluated before the reference  *)
(* adapter and the gccgo adapter have both returned, and they run in the   *)
(* order gotypes, gccgo; the gc adapter is never run.                      *)
(***************************************************************************)
AdaptersBeforeClassifier ==
  /\ (pc \in {"classify", "format"} \/ verdict # Continue)
       => calls = <<"gotypes", "gccgo">>
  /\ FormatterRan => SubSeq(calls, 1, 2) = <<"gotypes", "gccgo">>
  /\ \A i \in 1..Len(calls) :
       /\ calls[i] # "gc"
       /\ calls[i] = "gccgo" => (i = 2 /\ calls[1] = "gotypes")

AdaptersBeforeClassifierWitness ==
  /\ pc = "classify"
  /\ calls = <<"gotypes", "gccgo">>
  /\ ~goErr.nil
  /\ ~gccgoErr.nil

(***************************************************************************)
(* C8.  Pre-filter early exit: on an input that matches bigNum or          *)
(* issue11531, Fuzz returns 0 and no adapter and no formatter is invoked   *)
(* at any point of the evaluation.                                         *)
(***************************************************************************)
PreFilterEarlyExit ==
  (Match(bigNum, data) \/ Match(issue11531, data))
  => /\ calls = <<>>
     /\ pc \in {"prefilter", "done"}
     /\ pc = "done" => Skipped

PreFilterEarlyExitWitness ==
  /\ Match(issue11531, data)
  /\ pc = "done"
  /\ Skipped
  /\ calls = <<>>

(***************************************************************************)
(* C9.  Pass implies unanimous validity: Fuzz returns 1 only if the input  *)
(* matched no pre-filter, both adapters ran, and goErr, gcErr and gccgoErr *)
(* are all nil.                                                            *)
(***************************************************************************)
PassImpliesUnanimous ==
  Passed
  => /\ ~(Match(bigNum, data) \/ Match(issue11531, data))
     /\ Judged
     /\ AllValid
     /\ verdict = Continue

PassImpliesUnanimousWitness ==
  /\ Passed
  /\ AllValid
  /\ FormatterRan
  /\ data # {}

(***************************************************************************)
(* C10.  gcErr is a copy of goErr, so once assigned the two are identical; *)
(* no rule that needs go/types and gc to differ in validity ever fires;    *)
(* the disagreement panic is reached exactly when goErr and gccgoErr       *)
(* differ in validity and nothing earlier matched; and the classification  *)
(* is the one computed from the input, goErr and gccgoErr alone.           *)
(***************************************************************************)
GcAliasTwoWay ==
  /\ pc \in {"gccgo", "classify", "format"} \/ Judged
       => /\ gcErr = goErr
          /\ ~(goErr.nil /\ ~gcErr.nil)
          /\ ~(gcErr.nil /\ ~goErr.nil)
  /\ verdict.rule \notin GcRules
  /\ (pc = "format" \/ Judged)
       => /\ verdict = Evaluate(data, goErr, goErr, gccgoErr)
          /\ (verdict.out = "panic" /\ verdict.msg = DisagreeMsg)
               <=> /\ goErr.nil # gccgoErr.nil
                   /\ KnownDivergence(data, goErr, goErr, gccgoErr) = "none"
                   /\ ~Match(gcCrash, goErr.msg)
                   /\ ~Match(gccgoCrash, gccgoErr.msg)
                   /\ ~Match(asanCrash, gccgoErr.msg)

GcAliasTwoWayWitness ==
  /\ Judged
  /\ ~goErr.nil
  /\ Contains(goErr.msg, "untyped float constant")
  /\ gccgoErr.nil
  /\ gcErr = goErr
  /\ panicMsg = DisagreeMsg

====
